---- MODULE Spec2Model ----
(***************************************************************************)
(* A model of the WebGL example pages of the Portfolio repository:         *)
(*   - examples/Tree/scripts/app.js        Scene, Model (page "tree")      *)
(*   - examples/practice/scripts/gl-scene.js  the gbuffer demo ("gbuffer") *)
(*   - the phong renderer and the Material helper class (page "phong")     *)
(* Each page is a single-threaded JavaScript program: every action below   *)
(* is one task of the event loop (a call from the page's script, an XHR or *)
(* image event, one display frame) and runs to completion.                 *)
(***************************************************************************)
EXTENDS Integers, Sequences, FiniteSets, TLC

\* Bounds of the model
MaxCalls == 2
MaxHandle == 3
MaxOps == 3

VARIABLES
    page,       \* which example page is running
    scene,      \* the Scene object's fields
    gl,         \* the WebGL context state the pages depend on
    raf,        \* the browser's animation frame callbacks
    life,       \* history: what has been called on the scene so far
    calls,      \* the AddModel calls issued, with their XHR/image in flight
    gb,         \* the gbuffer page's globals
    phong,      \* the phong page's objects (renderer, Material)
    update,     \* what the tree page's Update function does
    camera,     \* the Camera a page script constructed itself
    vecs,       \* the vec3 objects passed to the Camera constructor, by name
    log         \* what the most recent task did, in order

vars == <<page, scene, gl, raf, life, calls, gb, phong, update, camera, vecs, log>>

\* the example pages, and two scripts that drive a Camera: "camera" builds
\* one from its own vectors, "view" uses the camera of a Scene and calls
\* Render itself
Pages == {"tree", "gbuffer", "phong", "camera", "view"}

(***************************************************************************)
(* JavaScript values                                                       *)
(***************************************************************************)
Undefined == [t |-> "undefined"]
Null == [t |-> "null"]
Num(v) == [t |-> "number", v |-> v]
Fn == [t |-> "function"]
\* a plain object used as a map: its own properties in insertion order
Obj(e) == [t |-> "object", e |-> e]
\* a WebGLProgram and its LINK_STATUS
Program(linked) == [t |-> "program", linked |-> linked]

Truthy(v) ==
    CASE v.t \in {"undefined", "null"} -> FALSE
      [] v.t = "number" -> v.v # 0
      [] OTHER -> TRUE

\* property access on undefined or null is a TypeError
Coercible(v) == v.t \notin {"undefined", "null"}

Ids == {"tree", "7"}

\* the canonical numeric value of an array-index property name, else -1
KeyNumber(id) == IF id = "7" THEN 7 ELSE -1

Range(s) == {s[i] : i \in DOMAIN s}

Has(o, id) == o.t = "object" /\ \E i \in DOMAIN o.e : o.e[i].id = id

Get(o, id) == (CHOOSE x \in Range(o.e) : x.id = id).v

\* o[id] = v: an existing property keeps its place, a new one goes last
Put(o, id, v) ==
    IF Has(o, id)
    THEN Obj([i \in DOMAIN o.e |-> IF o.e[i].id = id THEN [id |-> id, v |-> v] ELSE o.e[i]])
    ELSE Obj(Append(o.e, [id |-> id, v |-> v]))

Keys(o) == IF o.t = "object" THEN {x.id : x \in Range(o.e)} ELSE {}

\* for (var i in o): nothing for undefined/null; array-index names first in
\* ascending numeric order, then the other names in insertion order
RECURSIVE SortedIndexKeys(_)
SortedIndexKeys(ks) ==
    IF ks = {} THEN <<>>
    ELSE LET k == CHOOSE x \in ks : \A y \in ks : KeyNumber(x) <= KeyNumber(y)
         IN <<k>> \o SortedIndexKeys(ks \ {k})

ForIn(o) ==
    IF o.t # "object" THEN <<>>
    ELSE LET names == [i \in DOMAIN o.e |-> o.e[i].id]
         IN SortedIndexKeys({k \in Keys(o) : KeyNumber(k) >= 0})
            \o SelectSeq(names, LAMBDA k : KeyNumber(k) < 0)

(***************************************************************************)
(* The world a task runs in, and the log of what it did                    *)
(***************************************************************************)
World == [scene |-> scene, gl |-> gl, raf |-> raf, life |-> life, gb |-> gb,
          phong |-> phong, camera |-> camera, vecs |-> vecs,
          log |-> <<>>, exc |-> FALSE]

Note(W, e) == [W EXCEPT !.log = Append(@, e)]

\* entering a function of the page
Enter(W, f) == Note(W, [ev |-> f])

ConsoleError(W) == Note(W, [ev |-> "console.error"])

\* an exception leaves the running function and every caller up to the task
Throw(W) == [Note(W, [ev |-> "throw"]) EXCEPT !.exc = TRUE]

\* callback(): a TypeError when the caller passed none
Invoke(W, callback) ==
    IF callback.t = "function" THEN Note(W, [ev |-> "callback"]) ELSE Throw(W)

Commit(W) ==
    /\ scene' = W.scene
    /\ gl' = W.gl
    /\ raf' = W.raf
    /\ life' = W.life
    /\ gb' = W.gb
    /\ phong' = W.phong
    /\ camera' = W.camera
    /\ vecs' = W.vecs
    /\ log' = W.log

(***************************************************************************)
(* WebGL and the browser                                                   *)
(***************************************************************************)
\* gl.useProgram(p): undefined converts to null; a program that is not
\* linked is INVALID_OPERATION and leaves the current program as it was
UseProgram(W, p) ==
    LET W1 == Note(W, [ev |-> "useProgram", prog |-> p])
    IN  IF ~Coercible(p) THEN [W1 EXCEPT !.gl.program = Null]
        ELSE IF p.linked THEN [W1 EXCEPT !.gl.program = p]
        ELSE W1

\* gl.drawElements / gl.drawArrays, with the program the context holds
DrawElements(W, id, count, src) ==
    Note(W, [ev |-> "drawElements", id |-> id, count |-> count, src |-> src,
             prog |-> W.gl.program])

\* gl.uniformMatrix4fv(location, false, value)
UniformMatrix4fv(W, name, value) ==
    Note(W, [ev |-> "uniformMatrix4fv", name |-> name, value |-> value])

DrawArrays(W, id) == Note(W, [ev |-> "drawArrays", id |-> id, prog |-> W.gl.program])

\* requestAnimationFrame(cb): the handle returned is W.raf.next
RequestAnimationFrame(W, cb) ==
    [Note(W, [ev |-> "requestAnimationFrame", h |-> W.raf.next])
        EXCEPT !.raf.pending = @ \cup {[h |-> W.raf.next, cb |-> cb]},
               !.raf.next = @ + 1]

\* performance.now(): times are measured from the start of the most recent
\* display frame, and the tasks between two frames take no time
PerformanceNow(W) == 0

\* how long after the previous one a display frame can begin (ms)
FrameTimes == {16, 33}

CancelAnimationFrame(W, h) == [W EXCEPT !.raf.pending = {p \in @ : p.h # h}]

(***************************************************************************)
(* vec3 and mat4 of glMatrix, as app.js uses them.  Vectors are triples of *)
(* integers and the arithmetic is exact: the model keeps to vectors whose  *)
(* length is a whole number and to rotations by quarter turns, for which   *)
(* sine and cosine are whole numbers too.                                  *)
(***************************************************************************)
Add(a, b) == <<a[1] + b[1], a[2] + b[2], a[3] + b[3]>>

Subtract(a, b) == <<a[1] - b[1], a[2] - b[2], a[3] - b[3]>>

Scale(a, k) == <<a[1] * k, a[2] * k, a[3] * k>>

Dot(a, b) == a[1] * b[1] + a[2] * b[2] + a[3] * b[3]

Cross(a, b) ==
    <<a[2] * b[3] - a[3] * b[2], a[3] * b[1] - a[1] * b[3], a[1] * b[2] - a[2] * b[1]>>

Abs(x) == IF x < 0 THEN -x ELSE x

\* Math.sqrt(x*x + y*y + z*z), a whole number no larger than |x| + |y| + |z|
Length(a) ==
    CHOOSE r \in 0 .. Abs(a[1]) + Abs(a[2]) + Abs(a[3]) : r * r = Dot(a, a)

\* vec3.normalize: the zero vector is left as it is
Normalize(a) ==
    IF Dot(a, a) > 0
    THEN LET len == Length(a) IN <<a[1] \div len, a[2] \div len, a[3] \div len>>
    ELSE <<0, 0, 0>>

\* vec3.scaleAndAdd(out, a, b, scale)
ScaleAndAdd(a, b, scale) == Add(a, Scale(b, scale))

\* Math.cos and Math.sin of a number of quarter turns
Cos(turns) == CASE turns % 4 = 0 -> 1 [] turns % 4 = 2 -> -1 [] OTHER -> 0

Sin(turns) == CASE turns % 4 = 1 -> 1 [] turns % 4 = 3 -> -1 [] OTHER -> 0

Mat4(m) == [t |-> "mat4", m |-> m]

\* mat4.lookAt(out, eye, center, up)
LookAt(eye, center, up) ==
    IF eye = center
    THEN Mat4(<<1, 0, 0, 0,  0, 1, 0, 0,  0, 0, 1, 0,  0, 0, 0, 1>>)
    ELSE LET z == Normalize(Subtract(eye, center))
             x == Normalize(Cross(up, z))
             y == Normalize(Cross(z, x))
         IN  Mat4(<<x[1], y[1], z[1], 0,
                    x[2], y[2], z[2], 0,
                    x[3], y[3], z[3], 0,
                    -Dot(x, eye), -Dot(y, eye), -Dot(z, eye), 1>>)

\* mat4.perspective(out, fovy, aspect, near, far): the matrix is kept as the
\* arguments that determine it (degrees, and tenths for near and far)
Perspective(fovy, near, far) ==
    [t |-> "mat4", perspective |-> [fovy |-> fovy, near |-> near, far |-> far]]

(***************************************************************************)
(* Camera (app.js).  this.position is the vec3 object the caller passed:   *)
(* the model keeps it as the name of that object among the vectors vecs;   *)
(* forward, right and up are objects the constructor creates.              *)
(***************************************************************************)
\* Camera as it would be with vec3.cross(this.right, up, this.forward)
CameraCrossesUpFirst(vs, position, lookAt, up) ==
    LET forward == Subtract(vs[lookAt], vs[position])
        right == Cross(vs[up], forward)
    IN  [t |-> "Camera", position |-> position,
         forward |-> Normalize(forward),
         right |-> Normalize(right),
         up |-> Normalize(Cross(right, forward))]

\* function Camera(position, lookAt, up), called with the names of three of
\* the vectors vs
Camera(vs, position, lookAt, up) ==
    LET forward == Subtract(vs[lookAt], vs[position])
        right == Cross(forward, vs[up])
    IN  [t |-> "Camera", position |-> position,
         forward |-> Normalize(forward),
         right |-> Normalize(right),
         up |-> Normalize(Cross(right, forward))]

\* Camera.prototype.getViewMatrix
GetViewMatrix(vs, cam) ==
    LookAt(vs[cam.position], Add(vs[cam.position], cam.forward), cam.up)

\* Camera.prototype.realign
Realign(cam) ==
    LET right == Cross(cam.forward, cam.up)
    IN  [cam EXCEPT !.forward = Normalize(cam.forward),
                    !.right = Normalize(right),
                    !.up = Normalize(Cross(right, cam.forward))]

\* Camera.prototype.rotateUp: forward turned about the world x axis
RotateUp(cam, turns) ==
    LET f == cam.forward
    IN  Realign([cam EXCEPT !.forward =
            <<f[1],
              Cos(turns) * f[2] - Sin(turns) * f[3],
              Sin(turns) * f[2] + Cos(turns) * f[3]>>])

\* Camera.prototype.rotateRight: forward turned about the world z axis
RotateRight(cam, turns) ==
    LET f == cam.forward
    IN  Realign([cam EXCEPT !.forward =
            <<Cos(turns) * f[1] - Sin(turns) * f[2],
              Sin(turns) * f[1] + Cos(turns) * f[2],
              f[3]>>])

\* moveForward as it would be with vec3.scale(this.position, this.forward, dist)
MoveForwardScales(vs, cam, dist) ==
    [vs EXCEPT ![cam.position] = Scale(cam.forward, dist)]

\* Camera.prototype.moveForward / moveRight / moveUp write into the vector
\* this.position names
MoveForward(vs, cam, dist) ==
    [vs EXCEPT ![cam.position] = ScaleAndAdd(@, cam.forward, dist)]

MoveRight(vs, cam, dist) ==
    [vs EXCEPT ![cam.position] = ScaleAndAdd(@, cam.right, dist)]

MoveUp(vs, cam, dist) ==
    [vs EXCEPT ![cam.position] = ScaleAndAdd(@, cam.up, dist)]

\* the names of the vec3 objects: those of the "camera" script and the
\* three that Scene.prototype.Load creates for its camera
Refs == {"position", "lookAt", "up", "Load.position", "Load.lookAt", "Load.up"}

\* a call of a Camera method: the event records the method, its argument
\* and the camera as the call found it
CameraMoves == {"moveForward", "moveRight", "moveUp"}

CameraRotations == {"rotateUp", "rotateRight"}

Snapshot(vs, cam) ==
    [position |-> vs[cam.position], forward |-> cam.forward,
     right |-> cam.right, up |-> cam.up]

\* the camera with the vector that method op moves along or turns
CameraCall(vs, cam, op, arg) ==
    CASE op = "moveForward" -> [vecs |-> MoveForward(vs, cam, arg), camera |-> cam]
      [] op = "moveRight" -> [vecs |-> MoveRight(vs, cam, arg), camera |-> cam]
      [] op = "moveUp" -> [vecs |-> MoveUp(vs, cam, arg), camera |-> cam]
      [] op = "rotateUp" -> [vecs |-> vs, camera |-> RotateUp(cam, arg)]
      [] op = "rotateRight" -> [vecs |-> vs, camera |-> RotateRight(cam, arg)]

(***************************************************************************)
(* Scene (app.js)                                                          *)
(***************************************************************************)
\* function Scene(gl) { this.gl = gl; }
NewScene ==
    [models |-> Undefined, textures |-> Undefined, program |-> Undefined,
     camera |-> Undefined, viewMatrix |-> Undefined, projMatrix |-> Undefined,
     nextFrameHandle |-> Undefined]

\* what the driver answers to the compile, link and validate steps
Builds == {"vsFail", "fsFail", "linkFail", "validateFail", "ok"}

\* Load as it would be with me.program assigned before the link status is read
LoadKeepsUnlinkedProgram(W, build, callback) ==
    LET W0 == [Enter(W, "Load")
                  EXCEPT !.life.unloaded = FALSE,
                         !.scene.models = Obj(<<>>),
                         !.scene.textures = Obj(<<>>)]
    IN  IF build = "vsFail" THEN ConsoleError(W0)
        ELSE IF build = "fsFail" THEN ConsoleError(W0)
        ELSE IF build \in {"linkFail", "validateFail"}
             THEN ConsoleError([W0 EXCEPT !.scene.program = Program(FALSE)])
        ELSE LET vs == [W0.vecs EXCEPT !["Load.position"] = <<10, 0, 0>>,
                                       !["Load.lookAt"] = <<0, 0, 0>>,
                                       !["Load.up"] = <<0, 1, 0>>]
                 cam == Camera(vs, "Load.position", "Load.lookAt", "Load.up")
             IN  Invoke([W0 EXCEPT !.scene.program = Program(TRUE),
                                   !.vecs = vs,
                                   !.scene.camera = cam,
                                   !.scene.viewMatrix = GetViewMatrix(vs, cam),
                                   !.scene.projMatrix = Perspective(45, 1, 1000)],
                        callback)

Load(W, build, callback) ==
    LET W0 == [Enter(W, "Load")
                  EXCEPT !.life.unloaded = FALSE,
                         !.scene.models = Obj(<<>>),
                         !.scene.textures = Obj(<<>>)]
    IN  IF build = "vsFail" THEN ConsoleError(W0)
        ELSE IF build = "fsFail" THEN ConsoleError(W0)
        ELSE IF build = "linkFail" THEN ConsoleError(W0)
        ELSE IF build = "validateFail" THEN ConsoleError(W0)
        ELSE LET vs == [W0.vecs EXCEPT !["Load.position"] = <<10, 0, 0>>,
                                       !["Load.lookAt"] = <<0, 0, 0>>,
                                       !["Load.up"] = <<0, 1, 0>>]
                 cam == Camera(vs, "Load.position", "Load.lookAt", "Load.up")
             IN  Invoke([W0 EXCEPT !.scene.program = Program(TRUE),
                                   !.vecs = vs,
                                   !.scene.camera = cam,
                                   !.scene.viewMatrix = GetViewMatrix(vs, cam),
                                   !.scene.projMatrix = Perspective(45, 1, 1000)],
                        callback)

Pause(W) ==
    LET W0 == [Enter(W, "Pause") EXCEPT !.life.paused = TRUE]
    IN  IF Truthy(W0.scene.nextFrameHandle)
        THEN CancelAnimationFrame(W0, W0.scene.nextFrameHandle.v)
        ELSE W0

NullIfTruthy(v) == IF Truthy(v) THEN Null ELSE v

Unload(W, callback) ==
    LET W0 == Pause([Enter(W, "Unload") EXCEPT !.life.unloaded = TRUE])
        \* if (this.models) { ...; this.models = null; }
        W1 == [W0 EXCEPT !.scene.models = NullIfTruthy(@)]
        \* if (this.models) { ...; this.textures = null }
        W2 == IF Truthy(W1.scene.models)
              THEN [W1 EXCEPT !.scene.textures = Null]
              ELSE W1
        W3 == [W2 EXCEPT !.scene.camera = NullIfTruthy(@),
                         !.scene.program = NullIfTruthy(@),
                         !.scene.projMatrix = NullIfTruthy(@),
                         !.scene.viewMatrix = NullIfTruthy(@),
                         !.scene.nextFrameHandle = NullIfTruthy(@)]
    IN  Invoke(W3, callback)

\* the body of the loop over the meshes, for the keys still to visit
RECURSIVE DrawMeshes(_, _)
DrawMeshes(W, ks) ==
    IF ks = <<>> THEN W
    ELSE LET i == Head(ks) IN
         IF ~Coercible(W.scene.textures) THEN Throw(W)
         ELSE LET tex == IF Has(W.scene.textures, i)
                         THEN Get(W.scene.textures, i) ELSE Undefined
                  W1 == Note(W, [ev |-> "bindTexture", id |-> i, tex |-> tex])
                  m == Get(W1.scene.models, i)
              IN DrawMeshes(DrawElements(W1, i, m.nPoints, m.src), Tail(ks))

Render(W) ==
    LET W0 == Note(W, [ev |-> "Render", paused |-> W.life.paused,
                       unloaded |-> W.life.unloaded, models |-> W.scene.models])
        W1 == UseProgram(W0, W0.scene.program)
    IN  \* me.program.uniforms.mProj
        IF ~Coercible(W1.scene.program) THEN Throw(W1)
        ELSE LET W2 == UniformMatrix4fv(W1, "mProj", W1.scene.projMatrix)
                 W3 == UniformMatrix4fv(W2, "mView", W2.scene.viewMatrix)
             IN  DrawMeshes(W3, ForIn(W3.scene.models))

\* what the Update hook the caller gave to Begin does
Hooks == {"nothing", "Pause", "Unload"}

Update(W, hook, dt) ==
    LET W0 == Note(W, [ev |-> "Update", paused |-> W.life.paused,
                       unloaded |-> W.life.unloaded, dt |-> dt])
    IN  CASE hook = "Pause" -> Pause(W0)
          [] hook = "Unload" -> Unload(W0, Fn)
          [] OTHER -> W0

\* the closure `loop` of a Begin call: its Update and its previousFrame
LoopClosure(hook, previousFrame) ==
    [f |-> "loop", Update |-> hook, previousFrame |-> previousFrame]

\* loop as it would be if it registered the next iteration first
LoopRegistersFirst(W, closure, currentFrameTime) ==
    LET W0 == [RequestAnimationFrame(Enter(W, "loop"),
                   LoopClosure(closure.Update, currentFrameTime))
                  EXCEPT !.scene.nextFrameHandle = Num(W.raf.next)]
        W1 == Update(W0, closure.Update, currentFrameTime - closure.previousFrame)
    IN  IF W1.exc THEN W1 ELSE Render(W1)

\* loop(currentFrameTime)
Loop(W, closure, currentFrameTime) ==
    LET dt == currentFrameTime - closure.previousFrame
        W1 == Update(Enter(W, "loop"), closure.Update, dt)
    IN  IF W1.exc THEN W1
        ELSE LET W2 == Render(W1) IN
             IF W2.exc THEN W2
             ELSE [RequestAnimationFrame(W2, LoopClosure(closure.Update, currentFrameTime))
                      EXCEPT !.scene.nextFrameHandle = Num(W2.raf.next)]

Begin(W, hook) ==
    LET W0 == [Enter(W, "Begin") EXCEPT !.life.paused = FALSE]
    IN  [RequestAnimationFrame(W0, LoopClosure(hook, PerformanceNow(W0)))
            EXCEPT !.scene.nextFrameHandle = Num(W0.raf.next)]

(***************************************************************************)
(* Scene.AddModel (app.js): the XHR, the image and the Model constructor   *)
(***************************************************************************)
\* what image.onload reads of the parsed response: whether the objects
\* data.attributes.{position,normal,uv} and data.index are there, the length
\* of data.attributes.position.array and of data.index.array (-1: no `array`)
Json(path, position, index) == [path |-> path, position |-> position, index |-> index]

Jsons ==
    { Json(FALSE, -1, -1),     \* {}
      Json(TRUE, 9, -1),       \* data.index = {}
      Json(TRUE, -1, 3),       \* data.attributes.position = {}
      Json(TRUE, 18, 6) }

WellFormed(modelJSON) == modelJSON.path /\ modelJSON.position >= 0 /\ modelJSON.index >= 0

Statuses == {200, 404}

\* function Model(gl, vertices, indices, normals, texCoords): indices.length
\* is a TypeError when indices is undefined
ModelThrows(modelJSON) == modelJSON.index < 0

\* new Float32Array(undefined) is an empty array: the constructor goes on
Model(modelJSON, c) == [t |-> "Model", nPoints |-> modelJSON.index, src |-> c]

Texture(c) == [t |-> "texture", src |-> c]

\* Scene.prototype.AddModel up to request.send()
AddModel(W, id) == Enter(W, "AddModel")

\* request.onload of call c: parses tells whether JSON.parse accepts the body
XhrOnload(W, c, id, status, parses) ==
    LET W0 == Enter(W, "request.onload") IN
    IF status > 199 /\ status < 300
    THEN IF parses
         THEN Note(W0, [ev |-> "image.src"])
         ELSE ConsoleError(W0)
    ELSE ConsoleError(W0)

\* image.onload as it would be without me.textures[id] = texture
ImageOnloadWithoutTexture(W, c, id, modelJSON) ==
    LET W0 == Note(W, [ev |-> "image.onload", c |-> c, id |-> id, json |-> modelJSON,
                       models |-> W.scene.models]) IN
    IF ~modelJSON.path THEN Throw(W0)
    ELSE IF ModelThrows(modelJSON) THEN Throw(W0)
    ELSE IF ~Coercible(W0.scene.models) THEN Throw(W0)
    ELSE Invoke([W0 EXCEPT !.scene.models = Put(@, id, Model(modelJSON, c))], Fn)

\* image.onload as it would be if the images were handled in the order of
\* the AddModel calls, a call waiting for every earlier one to settle
ImageOnloadAfterEarlierCalls(W, c, id, modelJSON) ==
    LET W0 == Note(W, [ev |-> "image.onload", c |-> c, id |-> id, json |-> modelJSON,
                       models |-> W.scene.models]) IN
    IF \E d \in DOMAIN calls : d < c /\ calls[d].stage # "done" THEN W0
    ELSE IF ~modelJSON.path THEN Throw(W0)
    ELSE IF ModelThrows(modelJSON) THEN Throw(W0)
    ELSE IF ~Coercible(W0.scene.models) THEN Throw(W0)
    ELSE LET W1 == [W0 EXCEPT !.scene.models = Put(@, id, Model(modelJSON, c))]
         IN  IF ~Coercible(W1.scene.textures) THEN Throw(W1)
             ELSE Invoke([W1 EXCEPT !.scene.textures = Put(@, id, Texture(c))], Fn)

\* image.onload as it would be with
\* if (!me.textures[id]) me.textures[id] = texture
ImageOnloadKeepsTexture(W, c, id, modelJSON) ==
    LET W0 == Note(W, [ev |-> "image.onload", c |-> c, id |-> id, json |-> modelJSON,
                       models |-> W.scene.models]) IN
    IF ~modelJSON.path THEN Throw(W0)
    ELSE IF ModelThrows(modelJSON) THEN Throw(W0)
    ELSE IF ~Coercible(W0.scene.models) THEN Throw(W0)
    ELSE LET W1 == [W0 EXCEPT !.scene.models = Put(@, id, Model(modelJSON, c))]
         IN  IF ~Coercible(W1.scene.textures) THEN Throw(W1)
             ELSE IF Has(W1.scene.textures, id) THEN Invoke(W1, Fn)
             ELSE Invoke([W1 EXCEPT !.scene.textures = Put(@, id, Texture(c))], Fn)

\* image.onload of call c
ImageOnload(W, c, id, modelJSON) ==
    LET W0 == Note(W, [ev |-> "image.onload", c |-> c, id |-> id, json |-> modelJSON,
                       models |-> W.scene.models]) IN
    IF ~modelJSON.path THEN Throw(W0)
    ELSE IF ModelThrows(modelJSON) THEN Throw(W0)
    ELSE IF ~Coercible(W0.scene.models) THEN Throw(W0)
    ELSE LET W1 == [W0 EXCEPT !.scene.models = Put(@, id, Model(modelJSON, c))]
         IN  IF ~Coercible(W1.scene.textures) THEN Throw(W1)
             ELSE Invoke([W1 EXCEPT !.scene.textures = Put(@, id, Texture(c))], Fn)

LogHas(l, ev) == \E i \in DOMAIN l : l[i].ev = ev

(***************************************************************************)
(* The gbuffer page (gl-scene.js)                                          *)
(***************************************************************************)
GbBuilds == {"vsFail", "fsFail", "linkFail", "ok"}

\* compile both stages and link: each failure is logged, nothing stops
GbBuild(W, build) ==
    LET W1 == IF build = "vsFail" THEN ConsoleError(W) ELSE W
        W2 == IF build = "fsFail" THEN ConsoleError(W1) ELSE W1
    IN  IF build # "ok" THEN ConsoleError(W2) ELSE W2

\* the script's top level
GbSetup(W, geoBuild, mainBuild) ==
    LET W1 == GbBuild(Enter(W, "script"), geoBuild)
        W2 == GbBuild(W1, mainBuild)
    IN  [W2 EXCEPT !.gb.stage = "setup",
                   !.gb.geoProgram = Program(geoBuild = "ok"),
                   !.gb.mainProgram = Program(mainBuild = "ok")]

\* start(): the buffers and uniform data, then the texture image is requested
GbStart(W) == [Enter(W, "start") EXCEPT !.gb.images = @ + 1]

Lights == 1 .. 4

RECURSIVE GbDrawLights(_, _)
GbDrawLights(W, i) ==
    IF i \notin Lights THEN W
    ELSE GbDrawLights(DrawElements(W, "sphere", 0, i), i + 1)

\* function draw() of image.onload: one box, then one sphere per light
GbDraw(W) ==
    LET W1 == UseProgram(Enter(W, "draw"), W.gb.geoProgram)
        W2 == DrawArrays(W1, "box")
        W3 == UseProgram(W2, W2.gb.mainProgram)
    IN  RequestAnimationFrame(GbDrawLights(W3, 1), [f |-> "draw"])

GbImageOnload(W) ==
    LET W1 == UseProgram(Enter(W, "texture.onload"), W.gb.mainProgram)
    IN  RequestAnimationFrame([W1 EXCEPT !.gb.images = @ - 1], [f |-> "draw"])

(***************************************************************************)
(* The phong page: renderer and Material                                   *)
(***************************************************************************)
\* var renderer = function (gl): after me.program is set, me.uniforms is
\* undefined and me.uniforms.pointLights = [] is a TypeError
Renderer(W, build) ==
    LET W0 == [Enter(W, "renderer") EXCEPT !.phong.renderer = Obj(<<>>),
                                           !.phong.rendererProgram = Undefined]
    IN  IF build = "vsFail" THEN ConsoleError(W0)
        ELSE IF build = "fsFail" THEN ConsoleError(W0)
        ELSE IF build = "linkFail" THEN ConsoleError(W0)
        ELSE IF build = "validateFail" THEN ConsoleError(W0)
        ELSE Throw([W0 EXCEPT !.phong.rendererProgram = Program(TRUE)])

\* Material.getShader: the shader, or null after logging
GetShader(W, ok) == IF ok THEN W ELSE ConsoleError(W)

\* class Material: `return null` in a constructor still yields the object
Material(W, vsOk, fsOk, linkOk) ==
    LET W0 == [Enter(W, "Material") EXCEPT !.phong.material = Obj(<<>>),
                                           !.phong.materialProgram = Undefined]
        W1 == GetShader(GetShader(W0, vsOk), fsOk)
    IN  IF vsOk /\ fsOk
        THEN LET W2 == [W1 EXCEPT !.phong.materialProgram = Program(linkOk)]
             IN  IF ~linkOk THEN ConsoleError(W2) ELSE W2
        ELSE W1

(***************************************************************************)
(* One display frame: the browser runs the callbacks that were pending     *)
(* when the frame began, in the order they were registered, skipping those *)
(* cancelled meanwhile; an exception ends only the callback it came from   *)
(***************************************************************************)
RunCallback(W, cb, time) == IF cb.f = "draw" THEN GbDraw(W) ELSE Loop(W, cb, time)

RECURSIVE RunFrame(_, _, _)
RunFrame(W, hs, time) ==
    IF hs = {} THEN W
    ELSE LET h == CHOOSE x \in hs : \A y \in hs : x <= y
             live == {p \in W.raf.pending : p.h = h}
         IN  IF live = {} THEN RunFrame(W, hs \ {h}, time)
             ELSE LET p == CHOOSE q \in live : TRUE
                      W1 == RunCallback([W EXCEPT !.raf.pending = @ \ {p}], p.cb, time)
                  IN  RunFrame([W1 EXCEPT !.exc = FALSE], hs \ {h}, time)

\* the frame that began at `time` becomes the origin of the times kept
SinceFrame(cb, time) ==
    IF cb.f = "loop" THEN [cb EXCEPT !.previousFrame = @ - time] ELSE cb

Rebase(W, time) ==
    [W EXCEPT !.raf.pending = {[h |-> p.h, cb |-> SinceFrame(p.cb, time)] : p \in @}]

(***************************************************************************)
(* The state machine                                                       *)
(***************************************************************************)
Init ==
    /\ page \in Pages
    /\ update \in IF page = "tree" THEN Hooks ELSE {"nothing"}
    /\ scene = NewScene
    /\ gl = [program |-> Null]
    /\ raf = [pending |-> {}, next |-> 1]
    /\ life = [paused |-> FALSE, unloaded |-> FALSE, cameraCalls |-> 0]
    /\ camera = Undefined
    /\ vecs = [r \in Refs |-> <<0, 0, 0>>]
    /\ calls = <<>>
    /\ gb = [stage |-> "none", geoProgram |-> Undefined,
             mainProgram |-> Undefined, images |-> 0, starts |-> 0]
    /\ phong = [renderer |-> Undefined, rendererProgram |-> Undefined,
                material |-> Undefined, materialProgram |-> Undefined]
    /\ log = <<>>

DoLoad ==
    /\ page \in {"tree", "view"}
    /\ \E build \in Builds : Commit(Load(World, build, Fn))
    /\ UNCHANGED <<page, update, calls>>

DoUnload ==
    /\ page = "tree"
    /\ Commit(Unload(World, Fn))
    /\ UNCHANGED <<page, update, calls>>

DoBegin ==
    /\ page = "tree"
    /\ raf.next <= MaxHandle
    /\ Commit(Begin(World, update))
    /\ UNCHANGED <<page, update, calls>>

DoPause ==
    /\ page = "tree"
    /\ Commit(Pause(World))
    /\ UNCHANGED <<page, update, calls>>

NewCall(id) == [id |-> id, stage |-> "xhr"]

DoAddModel ==
    /\ page = "tree"
    /\ Len(calls) < MaxCalls
    /\ \E id \in Ids :
          /\ Commit(AddModel(World, id))
          /\ calls' = Append(calls, NewCall(id))
    /\ UNCHANGED <<page, update>>

\* the response of call c arrives; its shape is read in image.onload
XhrLoad ==
    /\ page = "tree"
    /\ \E c \in DOMAIN calls, status \in Statuses, parses \in BOOLEAN :
          /\ calls[c].stage = "xhr"
          /\ LET W == XhrOnload(World, c, calls[c].id, status, parses) IN
             /\ Commit(W)
             /\ calls' = [calls EXCEPT
                    ![c].stage = IF LogHas(W.log, "image.src") THEN "image" ELSE "done"]
    /\ UNCHANGED <<page, update>>

\* the request of call c fails on the network: AddModel set no onerror
XhrError ==
    /\ page = "tree"
    /\ \E c \in DOMAIN calls :
          /\ calls[c].stage = "xhr"
          /\ Commit(World)
          /\ calls' = [calls EXCEPT ![c].stage = "done"]
    /\ UNCHANGED <<page, update>>

\* the image of call c arrives: modelJSON is what JSON.parse had returned
ImageLoad ==
    /\ page = "tree"
    /\ \E c \in DOMAIN calls, modelJSON \in Jsons :
          /\ calls[c].stage = "image"
          /\ Commit(ImageOnload(World, c, calls[c].id, modelJSON))
          /\ calls' = [calls EXCEPT ![c].stage = "done"]
    /\ UNCHANGED <<page, update>>

\* the image of call c fails to load: AddModel set no onerror
ImageError ==
    /\ page = "tree"
    /\ \E c \in DOMAIN calls :
          /\ calls[c].stage = "image"
          /\ Commit(World)
          /\ calls' = [calls EXCEPT ![c].stage = "done"]
    /\ UNCHANGED <<page, update>>

DisplayFrame ==
    /\ raf.pending # {}
    /\ raf.next + Cardinality(raf.pending) - 1 <= MaxHandle
    /\ \E time \in FrameTimes :
          Commit(Rebase(RunFrame(Note(World, [ev |-> "frame", time |-> time]),
                                 {p.h : p \in raf.pending}, time), time))
    /\ UNCHANGED <<page, update, calls>>

DoGbSetup ==
    /\ page = "gbuffer"
    /\ gb.stage = "none"
    /\ \E geoBuild \in GbBuilds, mainBuild \in GbBuilds :
          Commit(GbSetup(World, geoBuild, mainBuild))
    /\ UNCHANGED <<page, update, calls>>

DoGbStart ==
    /\ page = "gbuffer"
    /\ gb.stage = "setup"
    /\ gb.starts < MaxCalls
    /\ Commit([GbStart(World) EXCEPT !.gb.starts = @ + 1])
    /\ UNCHANGED <<page, update, calls>>

GbImageLoad ==
    /\ page = "gbuffer"
    /\ gb.images > 0
    /\ raf.next <= MaxHandle
    /\ Commit(GbImageOnload(World))
    /\ UNCHANGED <<page, update, calls>>

\* the texture image fails to load: start() set no onerror
GbImageError ==
    /\ page = "gbuffer"
    /\ gb.images > 0
    /\ Commit([World EXCEPT !.gb.images = @ - 1])
    /\ UNCHANGED <<page, update, calls>>

\* the vectors the "camera" script constructs its Camera from
Positions == {<<10, 0, 0>>, <<0, 0, 5>>}

LookAts == {<<0, 0, 0>>}

Ups == {<<0, 1, 0>>, <<0, 2, 0>>}

\* var camera = new Camera(position, lookAt, up)
NewCamera ==
    /\ page = "camera"
    /\ camera = Undefined
    /\ \E position \in Positions, lookAt \in LookAts, up \in Ups :
          LET vs == [vecs EXCEPT !["position"] = position,
                                 !["lookAt"] = lookAt,
                                 !["up"] = up]
          IN  Commit([Enter(World, "Camera")
                         EXCEPT !.vecs = vs,
                                !.camera = Camera(vs, "position", "lookAt", "up")])
    /\ UNCHANGED <<page, update, calls>>

\* distances moved, and quarter turns rotated, by a call
Distances == {-1, 1, 2}

Turns == {1, 2, 3}

\* camera.moveForward(dist), ..., camera.rotateRight(rad) on the script's
\* camera, or scene.camera.moveForward(dist), ... on the scene's
CallCamera ==
    /\ page \in {"camera", "view"}
    /\ life.cameraCalls < MaxOps
    /\ LET cam == IF page = "view" THEN scene.camera ELSE camera IN
       /\ Coercible(cam)
       /\ \E op \in CameraMoves \cup CameraRotations :
             \E arg \in IF op \in CameraMoves THEN Distances ELSE Turns :
                LET W0 == Note(World, [ev |-> op, arg |-> arg,
                                       was |-> Snapshot(vecs, cam)])
                    now == CameraCall(vecs, cam, op, arg)
                    W1 == [W0 EXCEPT !.vecs = now.vecs,
                                     !.life.cameraCalls = @ + 1]
                IN  IF page = "view"
                    THEN Commit([W1 EXCEPT !.scene.camera = now.camera])
                    ELSE Commit([W1 EXCEPT !.camera = now.camera])
    /\ UNCHANGED <<page, update, calls>>

\* scene.Render() called by the script
DoRender ==
    /\ page = "view"
    /\ Commit(Render(World))
    /\ UNCHANGED <<page, update, calls>>

NewRenderer ==
    /\ page = "phong"
    /\ \E build \in Builds : Commit(Renderer(World, build))
    /\ UNCHANGED <<page, update, calls>>

NewMaterial ==
    /\ page = "phong"
    /\ \E vsOk \in BOOLEAN, fsOk \in BOOLEAN, linkOk \in BOOLEAN :
          Commit(Material(World, vsOk, fsOk, linkOk))
    /\ UNCHANGED <<page, update, calls>>

Next ==
    \/ DoLoad
    \/ DoUnload
    \/ DoBegin
    \/ DoPause
    \/ DoAddModel
    \/ XhrLoad
    \/ XhrError
    \/ ImageLoad
    \/ ImageError
    \/ DisplayFrame
    \/ DoGbSetup
    \/ DoGbStart
    \/ GbImageLoad
    \/ GbImageError
    \/ NewRenderer
    \/ NewMaterial
    \/ NewCamera
    \/ CallCamera
    \/ DoRender

Spec == Init /\ [][Next]_vars

(***************************************************************************)
(* Properties                                                              *)
(***************************************************************************)
TaskIs(f) == Len(log) > 0 /\ log[1].ev = f

NoEntries(o) == o.t # "object" \/ o.e = <<>>

Draws == {"drawElements", "drawArrays"}

\* C1: Scene.Unload() called with a callback, also a second time in
\* succession, does not throw and leaves the models map and the textures map
\* without entries.
C1_UnloadLeavesMapsEmpty ==
    (TaskIs("Unload") /\ LogHas(log, "callback")) =>
        /\ ~LogHas(log, "throw")
        /\ NoEntries(scene.models)
        /\ NoEntries(scene.textures)

\* C2: once Pause() has been called, between frames or from inside the
\* Update hook, no Update and no Render runs until Begin is called again.
C2_PauseStopsUpdateAndRender ==
    \A i \in DOMAIN log : log[i].ev \in {"Update", "Render"} => ~log[i].paused

\* C3: once Unload() has been called the scene never returns to Running (no
\* render loop callback is pending) and Render never executes on it.
C3_UnloadedIsTerminal ==
    /\ life.unloaded => raf.pending = {}
    /\ \A i \in DOMAIN log : log[i].ev = "Render" => ~log[i].unloaded

FromCall(o, c) == o.t = "object" /\ \E x \in Range(o.e) : x.v.src = c

\* C4: an AddModel whose response parses but lacks the expected geometry
\* fields fails: its callback is not invoked and it leaves no entry in the
\* models map or the textures map.
C4_MalformedJsonRegistersNothing ==
    (TaskIs("image.onload") /\ ~WellFormed(log[1].json)) =>
        /\ ~LogHas(log, "callback")
        /\ ~FromCall(scene.models, log[1].c)
        /\ ~FromCall(scene.textures, log[1].c)

\* what a task can show of an AddModel call's outcome: the completion
\* callback, a console.error, or an exception the browser reports
Reported(l) ==
    LogHas(l, "callback") \/ LogHas(l, "console.error") \/ LogHas(l, "throw")

Settles(c) == calls[c].stage # "done" /\ calls'[c].stage = "done"

\* C5: no AddModel call ends silently: the task in which a call settles
\* invokes its completion callback or reports the failure.
C5_AddModelFailuresAreSurfaced ==
    [][\A c \in DOMAIN calls : Settles(c) => Reported(log')]_vars

LoadFailed(l) == Len(l) > 0 /\ l[1].ev = "Load" /\ LogHas(l, "console.error")

\* C6: a Load in which a shader compile, the link or the validation fails
\* halts: program, camera, viewMatrix and projMatrix are left as they were
\* (unset on a scene that was Uninitialized) and the callback is not invoked.
C6_LoadFailureHalts ==
    [][LoadFailed(log') =>
          /\ scene'.program = scene.program
          /\ scene'.camera = scene.camera
          /\ scene'.viewMatrix = scene.viewMatrix
          /\ scene'.projMatrix = scene.projMatrix
          /\ ~LogHas(log', "callback")]_vars

C6_Witness ==
    /\ LoadFailed(log)
    /\ scene.program = Undefined
    /\ scene.camera = Undefined

\* the program given to the most recent useProgram call before entry j
ProgramAsked(l, j) ==
    LET ups == {i \in 1 .. j : l[i].ev = "useProgram"}
    IN  IF ups = {} THEN Null
        ELSE l[CHOOSE i \in ups : \A k \in ups : k <= i].prog

Linked(p) == p.t = "program" /\ p.linked

\* C7: a failed shader compile or program link is reported, and no draw call
\* is attempted with a program that failed to build.
C7_NoDrawWithFailedProgram ==
    /\ (TaskIs("script") /\ ~(Linked(gb.geoProgram) /\ Linked(gb.mainProgram)))
          => LogHas(log, "console.error")
    /\ \A j \in DOMAIN log : log[j].ev \in Draws => Linked(ProgramAsked(log, j))

HoldsLinkedOrNone(p) == p.t = "program" => p.linked

\* C8: Material.program, Scene.program and renderer.program are only ever
\* set to a program that compiled and linked.
C8_OnlyLinkedPrograms ==
    /\ HoldsLinkedOrNone(scene.program)
    /\ HoldsLinkedOrNone(phong.rendererProgram)
    /\ HoldsLinkedOrNone(phong.materialProgram)

\* the draw calls of the Render invocation logged at entry i
DrawsOf(l, i) ==
    {j \in DOMAIN l : /\ j > i
                      /\ l[j].ev = "drawElements"
                      /\ \A k \in i + 1 .. j : l[k].ev # "Render"}

\* C9: each invocation of Render issues exactly one indexed draw call per
\* registered mesh, with the length of its index array as the count, and no
\* draw call for an id that is not registered.
C9_RenderDrawsEachMeshOnce ==
    \A i \in DOMAIN log : log[i].ev = "Render" =>
        /\ \A id \in Keys(log[i].models) :
              Cardinality({j \in DrawsOf(log, i) :
                  /\ log[j].id = id
                  /\ log[j].count = Get(log[i].models, id).nPoints}) = 1
        /\ \A j \in DrawsOf(log, i) : log[j].id \in Keys(log[i].models)
        /\ Cardinality(DrawsOf(log, i)) = Cardinality(Keys(log[i].models))

\* C10: every id of the models map is an id of the textures map, and a mesh
\* is drawn only after its image has loaded and with the texture registered
\* under its id bound.
C10_TextureBeforeDraw ==
    /\ Keys(scene.models) \subseteq Keys(scene.textures)
    /\ page = "tree" =>
          \A j \in DOMAIN log : log[j].ev = "drawElements" =>
              /\ calls[log[j].src].stage = "done"
              /\ j > 1
              /\ log[j - 1].ev = "bindTexture"
              /\ log[j - 1].id = log[j].id
              /\ log[j - 1].tex.t = "texture"

C10_Witness ==
    /\ page = "tree"
    /\ LogHas(log, "drawElements")
    /\ Keys(scene.models) # {}

\* the gl.deleteBuffer and gl.deleteTexture calls of a task for the
\* resources that call c created
Released(l, c) ==
    /\ \E i \in DOMAIN l : l[i].ev = "deleteBuffer" /\ l[i].src = c
    /\ \E i \in DOMAIN l : l[i].ev = "deleteTexture" /\ l[i].src = c

\* C11: when an AddModel registers under an id that is already registered,
\* the buffers and the texture of the entry it replaces are released.
C11_ReplacedEntryIsReleased ==
    [][\A c \in DOMAIN calls :
          (/\ FromCall(scene.models, c)
           /\ ~FromCall(scene'.models, c)
           /\ LogHas(log', "image.onload"))
          => Released(log', c)]_vars

\* the camera of the page: the scene's, or the one the script constructed
TheCamera == IF page = "camera" THEN camera ELSE scene.camera

Basis(cam) == [forward |-> cam.forward, right |-> cam.right, up |-> cam.up]

CameraOps == CameraMoves \cup CameraRotations

\* C12: every Render uploads as mView the view matrix of the scene's camera
\* as the camera is at that Render, and as mProj the projection that Load
\* established.
C12_RenderUploadsCurrentView ==
    (page = "view" /\ TaskIs("Render") /\ Coercible(scene.camera)) =>
        \A i \in DOMAIN log :
            log[i].ev = "uniformMatrix4fv" =>
                /\ log[i].name = "mView" =>
                       log[i].value = GetViewMatrix(vecs, scene.camera)
                /\ log[i].name = "mProj" =>
                       log[i].value = Perspective(45, 1, 1000)

Orthonormal(cam) ==
    /\ Dot(cam.forward, cam.forward) = 1
    /\ Dot(cam.right, cam.right) = 1
    /\ Dot(cam.up, cam.up) = 1
    /\ Dot(cam.forward, cam.right) = 0
    /\ Dot(cam.forward, cam.up) = 0
    /\ Dot(cam.right, cam.up) = 0

\* C13: after any sequence of rotateUp and rotateRight calls forward, right
\* and up of a camera are mutually orthogonal and each of unit length.
C13_BasisStaysOrthonormal ==
    (page \in {"camera", "view"} /\ Coercible(TheCamera)) => Orthonormal(TheCamera)

\* C14: a camera operation does not throw; a move leaves forward, right and
\* up as they were, a rotation leaves the position as it was, and none of
\* them changes a vector that the caller passed to the constructor.
C14_CameraOpsTouchOwnStateOnly ==
    [][(Len(log') > 0 /\ log'[1].ev \in CameraOps) =>
          /\ ~LogHas(log', "throw")
          /\ log'[1].ev \in CameraMoves => Basis(TheCamera') = Basis(TheCamera)
          /\ log'[1].ev \in CameraRotations =>
                 vecs'[TheCamera'.position] = vecs[TheCamera.position]
          /\ vecs' = vecs]_vars

\* C15: moveForward(d) followed by moveForward(-d) leaves the position where
\* it was before the first call, and neither call changes forward, right or
\* up.
C15_MoveForwardRoundTrip ==
    [][(/\ TaskIs("moveForward")
        /\ Len(log') > 0
        /\ log'[1].ev = "moveForward"
        /\ log'[1].arg = -log[1].arg)
       => /\ vecs'[TheCamera'.position] = log[1].was.position
          /\ Basis(log'[1].was) = Basis(log[1].was)
          /\ Basis(TheCamera') = Basis(log[1].was)]_vars

\* the second of the calls moveForward(1), moveForward(-1) on the camera
\* constructed at [10, 0, 0] looking at the origin has returned
C15_Witness ==
    /\ page = "camera"
    /\ life.cameraCalls = 2
    /\ TaskIs("moveForward")
    /\ log[1].arg = -1
    /\ log[1].was.position = <<9, 0, 0>>
    /\ log[1].was.forward = <<-1, 0, 0>>
    /\ vecs["lookAt"] = <<0, 0, 0>>
    /\ vecs[camera.position] = <<10, 0, 0>>

\* the camera and view matrix that position [10, 0, 0], lookAt [0, 0, 0] and
\* up [0, 1, 0] are to give
Expected(vs, cam, viewMatrix) ==
    /\ cam.forward = <<-1, 0, 0>>
    /\ cam.right = <<0, 0, -1>>
    /\ cam.up = <<0, 1, 0>>
    /\ viewMatrix = LookAt(<<10, 0, 0>>, Add(vs[cam.position], cam.forward), <<0, 1, 0>>)
    /\ viewMatrix = LookAt(<<10, 0, 0>>, <<0, 0, 0>>, <<0, 1, 0>>)

\* C16: a camera constructed with position [10, 0, 0], lookAt [0, 0, 0] and
\* up [0, 1, 0] has forward [-1, 0, 0], right [0, 0, -1] and up [0, 1, 0],
\* and its view matrix is the look-at matrix for eye [10, 0, 0], center
\* position + forward and up [0, 1, 0], which is the look-at matrix for
\* center [0, 0, 0].
C16_DefaultCamera ==
    /\ (TaskIs("Load") /\ LogHas(log, "callback")) =>
           Expected(vecs, scene.camera, scene.viewMatrix)
    /\ (/\ TaskIs("Camera")
        /\ vecs["position"] = <<10, 0, 0>>
        /\ vecs["lookAt"] = <<0, 0, 0>>
        /\ vecs["up"] = <<0, 1, 0>>) =>
           Expected(vecs, camera, GetViewMatrix(vecs, camera))

C16_Witness ==
    /\ TaskIs("Load")
    /\ LogHas(log, "callback")
    /\ scene.camera.t = "Camera"
    /\ vecs[scene.camera.position] = <<10, 0, 0>>

\* the scene is Uninitialized until a Load has set its program
Uninitialized == scene.program = Undefined

\* C17: Begin starts the render loop only on a scene that has Loaded: while
\* the scene is Uninitialized no render-loop callback is pending and Render
\* does not run.
C17_LoopOnlyAfterLoad ==
    (page = "tree" /\ Uninitialized) =>
        /\ raf.pending = {}
        /\ ~LogHas(log, "Render")

\* C18: at most one render-loop callback is pending at any time, and it is
\* the one recorded in nextFrameHandle.
C18_OneRegistrationPending ==
    page = "tree" =>
        /\ Cardinality(raf.pending) <= 1
        /\ \A p \in raf.pending : scene.nextFrameHandle = Num(p.h)

\* the ids of the draw calls of the Render invocation logged at entry i, in
\* the order of the calls
RECURSIVE DrawOrder(_, _)
DrawOrder(l, i) ==
    IF i > Len(l) \/ l[i].ev = "Render" THEN <<>>
    ELSE IF l[i].ev = "drawElements" THEN <<l[i].id>> \o DrawOrder(l, i + 1)
    ELSE DrawOrder(l, i + 1)

\* the ids of a map in the order in which they were first registered
Registered(o) == IF o.t = "object" THEN [k \in DOMAIN o.e |-> o.e[k].id] ELSE <<>>

\* C20: a Render that completes draws the meshes in the order in which
\* their ids were registered.
C20_DrawsInInsertionOrder ==
    \A i \in DOMAIN log :
        (log[i].ev = "Render" /\ ~LogHas(log, "throw")) =>
            DrawOrder(log, i + 1) = Registered(log[i].models)

\* the last entry of the loop iteration that entry i begins
LoopEnd(l, i) ==
    LET later == {j \in DOMAIN l : j > i /\ l[j].ev = "loop"}
    IN  IF later = {} THEN Len(l)
        ELSE (CHOOSE j \in later : \A k \in later : j <= k) - 1

\* the time of the display frame of a task, measured from the previous frame
FrameTime(l) == l[1].time

Stalled == {d \in DOMAIN calls : calls[d].stage # "done" /\ calls'[d].stage # "done"}

\* the step is image.onload of a call whose response has the geometry, on a
\* scene whose maps Load has set
Arrives ==
    /\ Len(log') > 0
    /\ log'[1].ev = "image.onload"
    /\ WellFormed(log'[1].json)
    /\ Coercible(scene.models)

\* the step is a display frame of a Loaded scene whose Update does nothing
FrameOfLoaded ==
    /\ Len(log') > 0
    /\ log'[1].ev = "frame"
    /\ page = "tree"
    /\ update = "nothing"
    /\ scene.program = Program(TRUE)

Count(l, ev) == Cardinality({i \in DOMAIN l : l[i].ev = ev})

\* C21: while the load of one id stalls, a call for another id whose JSON
\* and image arrive registers its mesh and its texture and invokes its
\* callback, every pending loop iteration updates, renders and registers
\* the next one, and the stalled call has no entry in either map.
C21_StalledLoadAffectsNothingElse ==
    [][\A d \in Stalled :
          /\ ~FromCall(scene'.models, d)
          /\ ~FromCall(scene'.textures, d)
          /\ (Arrives /\ log'[1].id # calls[d].id) =>
                 /\ Has(scene'.models, log'[1].id)
                 /\ Get(scene'.models, log'[1].id).src = log'[1].c
                 /\ Has(scene'.textures, log'[1].id)
                 /\ Get(scene'.textures, log'[1].id).src = log'[1].c
                 /\ LogHas(log', "callback")
          /\ FrameOfLoaded =>
                 /\ ~LogHas(log', "throw")
                 /\ Count(log', "loop") = Cardinality(raf.pending)
                 /\ Count(log', "Render") = Cardinality(raf.pending)
                 /\ Cardinality(raf'.pending) = Cardinality(raf.pending)]_vars

\* with the call for one id stalled and the loop pending, the image of a
\* call for the other id has arrived and the call is registered
C21_Witness ==
    /\ TaskIs("image.onload")
    /\ LogHas(log, "callback")
    /\ FromCall(scene.models, log[1].c)
    /\ raf.pending # {}
    /\ \E d \in DOMAIN calls : calls[d].stage # "done" /\ calls[d].id # log[1].id

\* C22: models[id] and textures[id] always come from the same AddModel
\* call, and an entry is replaced only by the image.onload of another call
\* for its id that runs to its callback, which then owns both: the entry
\* that survives is that of the call whose image loaded last.
C22_EntriesPairedLastLoadWins ==
    [][/\ \A id \in Keys(scene'.models) \cap Keys(scene'.textures) :
             Get(scene'.models, id).src = Get(scene'.textures, id).src
       /\ (Len(log') > 0 /\ log'[1].ev = "image.onload" /\ LogHas(log', "callback")) =>
             /\ Has(scene'.models, log'[1].id)
             /\ Get(scene'.models, log'[1].id).src = log'[1].c
             /\ Get(scene'.textures, log'[1].id).src = log'[1].c
       /\ \A id \in Keys(scene.models) \cap Keys(scene'.models) :
             Get(scene'.models, id) # Get(scene.models, id) =>
                 /\ log'[1].ev = "image.onload"
                 /\ log'[1].id = id
                 /\ LogHas(log', "callback")]_vars

\* the call issued first has replaced the entry of the call issued second
C22_Witness ==
    /\ TaskIs("image.onload")
    /\ LogHas(log, "callback")
    /\ log[1].c = 1
    /\ Has(log[1].models, log[1].id)
    /\ Get(log[1].models, log[1].id).src = 2
    /\ Get(scene.models, log[1].id).src = 1
    /\ Get(scene.textures, log[1].id).src = 1

====
